---- MODULE Spec2Model ----
(***************************************************************************)
(* Model of the resumable date-range crawl-and-download engine of          *)
(* src/scraper.js: the date helpers, scrapeRange (listing walker and       *)
(* document resolver) and runScraper (cache load and window planning),     *)
(* together with the host killing the process and invoking the tool again. *)
(***************************************************************************)
EXTENDS Integers, Sequences, FiniteSets, TLC

VARIABLES
    \* ---- environment, fixed for a behaviour
    answers,        \* the prompt's answers handed to runScraper
    clock,          \* the wall clock read by `new Date()` (scraper.js:202)
    portal,         \* "bare": the portal lists no contract; "stocked": it does
    \* ---- durable state (survives the process)
    cacheExists,    \* whether temp-cache.txt exists
    cacheFile,      \* content of temp-cache.txt, a sequence of characters
    files,          \* document files: path -> "partial" | "complete"
    dirs,           \* directories created under (and including) pdfs/
    \* ---- the process
    pc,             \* position of the single thread of control
    run,            \* number of invocations of runScraper so far
    cachedIds,      \* runScraper's Set of cached ids
    stats,          \* runScraper's counters
    currentFromStr, \* runScraper's current window, as strings
    currentToStr,
    today,          \* runScraper's `today`
    page,           \* scrapeRange's page index
    hasNext,        \* scrapeRange's loop flag
    contractsOnPage,\* ids extracted from the current listing page
    idx,            \* position of the for-of loop in contractsOnPage
    \* ---- history (observations, never read by the program)
    walked,         \* windows handed to scrapeRange in this run, in order
    lastPage,       \* outcome of the last listing request in this window
    pageLog,        \* page indices requested in this window, in order
    loadedIds,      \* cachedIds as loaded when this run started
    runListed,      \* ids extracted from listing pages in this run
    pageErrors,     \* number of listing transport errors in this run
    orphans,        \* ids whose file was written when the last kill happened
    prev,           \* summary of the previous invocation
    event,          \* what last happened to the id at hand (or the one just done)
    failedIds,      \* ids counted as failed in this run
    writeFailed,    \* ids whose latest document write failed, in any run
    itemLog,        \* ids of the current page the for-of loop has taken up, in order
    audit,          \* this run's counts of listed ids, cache hits, token requests
                    \* and lines appended to the log
    steps,          \* what happened so far to the id at hand
    slept,          \* ms of the sleep that ended since the last remote call ended
    inFlight,       \* remote requests issued and neither answered nor failed
    \* ---- harness for the pure date helpers
    fnArg,
    fnRes

env      == <<answers, clock, portal>>
durable  == <<cacheExists, cacheFile, files, dirs>>
driver   == <<cachedIds, stats, currentFromStr, currentToStr, today>>
walker   == <<page, hasNext, contractsOnPage, idx>>
history  == <<walked, lastPage, pageLog, loadedIds, runListed, pageErrors,
              orphans, prev, event, failedIds, writeFailed, itemLog, audit,
              steps>>
traffic  == <<slept, inFlight>>
harness  == <<fnArg, fnRes>>
vars     == <<env, durable, pc, run, driver, walker, history, traffic,
              harness>>

----------------------------------------------------------------------------
(* Bounds                                                                  *)

\* first calendar year of the dates explored
FirstYear == 2023
\* number of further years explored after FirstYear
YearSpan == 2
\* ticks of the time of day (tick 0 is local midnight)
TicksPerDay == 2
\* listing pages the portal holds for one window
MaxPages == 2
\* invocations of runScraper in one behaviour
MaxRuns == 2

----------------------------------------------------------------------------
(* Dates.  A JavaScript Date is modelled by its local civil fields:        *)
(* y (getFullYear), m (getMonth, 0-based), d (getDate), t (time of day).   *)
(* A date string DD-MM-YYYY is modelled by its three numeric fields.       *)

IsLeap(y) == (y % 4 = 0 /\ y % 100 # 0) \/ y % 400 = 0

\* days of month m (0-based) of year y
DaysInMonth(y, m) ==
    IF m = 1 THEN (IF IsLeap(y) THEN 29 ELSE 28)
    ELSE IF m \in {3, 5, 8, 10} THEN 30 ELSE 31

\* ECMAScript MakeDay: a day of month outside the month rolls over
RECURSIVE NormDay(_, _, _)
NormDay(y, m, d) ==
    IF d < 1
    THEN LET pm == IF m = 0 THEN 11 ELSE m - 1
             py == IF m = 0 THEN y - 1 ELSE y
         IN  NormDay(py, pm, d + DaysInMonth(py, pm))
    ELSE IF d > DaysInMonth(y, m)
    THEN LET nm == IF m = 11 THEN 0 ELSE m + 1
             ny == IF m = 11 THEN y + 1 ELSE y
         IN  NormDay(ny, nm, d - DaysInMonth(y, m))
    ELSE <<y, m, d>>

\* new Date(y, m, d) / setMonth / setDate: month and day overflow roll over
MakeDate(y, m, d, t) ==
    LET yy == y + (m \div 12)
        mm == m % 12
        n  == NormDay(yy, mm, d)
    IN  [y |-> n[1], m |-> n[2], d |-> n[3], t |-> t]

\* the > of two Dates (comparison of their time values)
DateGT(a, b) ==
    \/ a.y > b.y
    \/ a.y = b.y /\ a.m > b.m
    \/ a.y = b.y /\ a.m = b.m /\ a.d > b.d
    \/ a.y = b.y /\ a.m = b.m /\ a.d = b.d /\ a.t > b.t

\* new Date(y, m - 1, d): local midnight; years 0..99 mean 1900..1999
parseDate(dateStr) ==
    LET yr == IF dateStr.yyyy \in 0..99 THEN 1900 + dateStr.yyyy ELSE dateStr.yyyy
    IN  MakeDate(yr, dateStr.mm - 1, dateStr.dd, 0)

formatDate(date) == [dd |-> date.d, mm |-> date.m + 1, yyyy |-> date.y]

addMonths_dropClamp(date, months) ==
    MakeDate(date.y, date.m + months, date.d, date.t)

addMonths(date, months) ==
    LET d == MakeDate(date.y, date.m + months, date.d, date.t)
    IN  IF d.d # date.d THEN MakeDate(d.y, d.m, 0, d.t) ELSE d

addDays(date, days) == MakeDate(date.y, date.m, date.d + days, date.t)

----------------------------------------------------------------------------
(* Record ids and the cache log.  An id is the token the listing parser    *)
(* extracts, the text between the first pair of single quotes of an        *)
(* onclick attribute: a non-empty sequence of characters other than the    *)
(* quote.  The cache log is the text of temp-cache.txt.                    *)

NL == "\n"
SP == " "

IdA      == <<"a">>
IdPadded == <<SP, "a">>

\* String.prototype.split('\n')
RECURSIVE SplitLines(_)
SplitLines(text) ==
    IF text = <<>> THEN << <<>> >>
    ELSE LET rest == SplitLines(Tail(text))
         IN  IF Head(text) = NL
             THEN << <<>> >> \o rest
             ELSE << <<Head(text)>> \o rest[1] >> \o Tail(rest)

\* String.prototype.trim()
RECURSIVE TrimLeft(_)
TrimLeft(s) ==
    IF s # <<>> /\ Head(s) \in {SP, NL} THEN TrimLeft(Tail(s)) ELSE s

RECURSIVE TrimRight(_)
TrimRight(s) ==
    IF s # <<>> /\ s[Len(s)] \in {SP, NL}
    THEN TrimRight(SubSeq(s, 1, Len(s) - 1)) ELSE s

Trim(s) == TrimRight(TrimLeft(s))

Range(f) == {f[i] : i \in DOMAIN f}

loadCache_noTrim(content) ==
    Range(SplitLines(content)) \ {<<>>}

\* content.split('\n').map(l => l.trim()).filter(Boolean), added to a Set
loadCache(content) ==
    {Trim(l) : l \in Range(SplitLines(content))} \ {<<>>}

\* the lines of the log as they were appended
LogLines(content) ==
    LET ls == SplitLines(content)
    IN  SubSeq(ls, 1, Len(ls) - 1)

----------------------------------------------------------------------------
(* The remote portal.  A listing response is its sequence of .block_header *)
(* nodes, each reduced to the id its onclick carries (NoId when the node   *)
(* has no anchor, no onclick or no quoted token).                          *)

Min(a, b) == IF a <= b THEN a ELSE b

NoId == <<>>

EmptyPages   == { <<>> }
NoIdPages    == { <<NoId>> }

\* the page of index p of a window's listing, while the portal has contracts
StockedPage(p) ==
    IF p % 2 = 0 THEN <<IdPadded, IdA>> ELSE <<IdA, NoId, IdA>>

\* the ids of contractNodes.each(...)
extractIds(blocks) == SelectSeq(blocks, LAMBDA b : b # NoId)

\* a token-exchange response: dlRes.data, its status and what code holds
TokenResponses ==
    { [data |-> FALSE, status |-> "0", code |-> "none"],
      [data |-> TRUE,  status |-> "0", code |-> "none"],
      [data |-> TRUE,  status |-> "0", code |-> "href"],
      [data |-> TRUE,  status |-> "1", code |-> "undefined"],
      [data |-> TRUE,  status |-> "1", code |-> "nolink"],
      [data |-> TRUE,  status |-> "1", code |-> "href"],
      [data |-> TRUE,  status |-> "1", code |-> "anchor"] }

----------------------------------------------------------------------------
(* Inputs                                                                  *)

DateOf(y, m, d) == [dd |-> d, mm |-> m, yyyy |-> y]

Years == FirstYear .. (FirstYear + YearSpan)

\* every date string naming a real calendar day of the explored years
CalendarDates ==
    { DateOf(y, m, d) : y \in Years, m \in 1..12, d \in 1..31 }
      \cap { s \in [dd : 1..31, mm : 1..12, yyyy : Years] :
               s.dd <= DaysInMonth(s.yyyy, s.mm - 1) }

\* wall clocks: mid June of the second year, at midnight and later in the day
Clocks ==
    { [y |-> FirstYear + 1, m |-> 5, d |-> 15, t |-> tk] : tk \in 0..(TicksPerDay - 1) }

\* the wall clock of the runs against a portal that lists contracts
StockedClocks == { c \in Clocks : c.t = TicksPerDay - 1 }

FirstOfMonth(s) == [s EXCEPT !.dd = 1]

\* a session cookie the prompt accepts
SomeCookie == "sid"

\* index.js:24: the default of the throttling question, in ms
DefaultThrottle == 500

Answers(to, rep) ==
    [cookie |-> SomeCookie, throttleTime |-> DefaultThrottle,
     fromDate |-> FirstOfMonth(to), toDate |-> to, repeatTillDate |-> rep]

\* an input that is not two digits, two digits and four digits joined by '-'
Garbled == [dd |-> -1, mm |-> -1, yyyy |-> -1]

\* index.js:19: validate of the cookie question
validateCookie(input) == input # ""

\* index.js:33,40: /^\d{2}-\d{2}-\d{4}$/.test(input)
validateDate(input) ==
    /\ input.dd \in 0..99 /\ input.mm \in 0..99 /\ input.yyyy \in 0..9999

\* inquirer asks a question again until its validate returns true, so
\* startScraper gets to runScraper only with answers that pass
PromptAccepts ==
    /\ validateCookie(answers.cookie)
    /\ validateDate(answers.fromDate)
    /\ validateDate(answers.toDate)

\* answers the prompt has to decide: an empty cookie, a garbled date, and a
\* date of the right shape that names no calendar day (31 February)
DoubtfulAnswers ==
    LET ok == Answers(DateOf(FirstYear + 1, 3, 31), FALSE)
    IN  { [ok EXCEPT !.cookie = ""],
          [ok EXCEPT !.fromDate = Garbled],
          [ok EXCEPT !.toDate = Garbled] }
        \cup { Answers(DateOf(FirstYear + 1, 2, 31), rep) : rep \in BOOLEAN }

\* toDate values explored against a portal that lists nothing: every day from
\* October of the first year to three days after the wall clock
WideToDates ==
    { s \in CalendarDates :
        /\ DateGT(parseDate(s), [y |-> FirstYear, m |-> 8, d |-> 30, t |-> 0])
        /\ ~ DateGT(parseDate(s), [y |-> FirstYear + 1, m |-> 5, d |-> 18, t |-> 0]) }

\* toDate values explored against a portal that lists contracts
StockedToDates == { DateOf(FirstYear + 1, 6, 14) }

NoDate == [dd |-> 0, mm |-> 0, yyyy |-> 0]
NoClock == [y |-> 0, m |-> 0, d |-> 0, t |-> 0]
ZeroStats == [scraped |-> 0, downloaded |-> 0, skipped |-> 0, failed |-> 0]
NoPrev == [clean |-> FALSE, listed |-> {}]
ZeroAudit == [listed |-> 0, hits |-> 0, tokens |-> 0, appended |-> 0]

InitProcess ==
    /\ pc = "idle" /\ run = 0
    /\ cachedIds = {} /\ stats = ZeroStats
    /\ currentFromStr = NoDate /\ currentToStr = NoDate /\ today = NoClock
    /\ page = 0 /\ hasNext = FALSE /\ contractsOnPage = <<>> /\ idx = 0
    /\ walked = <<>> /\ lastPage = "none" /\ pageLog = <<>>
    /\ loadedIds = {} /\ runListed = {}
    /\ pageErrors = 0 /\ orphans = {} /\ prev = NoPrev
    /\ event = "none" /\ failedIds = {} /\ writeFailed = {}
    /\ itemLog = <<>> /\ audit = ZeroAudit /\ steps = {}
    /\ slept = 0 /\ inFlight = {}

InitDurable ==
    /\ cacheExists = FALSE /\ cacheFile = <<>>
    /\ files = [p \in {} |-> "complete"] /\ dirs = {}

\* The planner is explored over every toDate of WideToDates and both clocks
\* against a portal that lists nothing; the resolver is explored against a
\* portal that lists contracts with toDate the day before the wall clock; the
\* prompt's validation is explored over DoubtfulAnswers.
Init ==
    /\ \/ /\ portal = "bare"
          /\ clock \in Clocks
          /\ answers \in { Answers(to, rep) : to \in WideToDates, rep \in BOOLEAN }
       \/ /\ portal = "stocked"
          /\ clock \in StockedClocks
          /\ answers \in { Answers(to, rep) : to \in StockedToDates, rep \in BOOLEAN }
       \/ /\ portal = "bare"
          /\ clock \in StockedClocks
          /\ answers \in DoubtfulAnswers
    /\ InitDurable
    /\ InitProcess
    /\ fnArg = NoClock /\ fnRes = NoClock

----------------------------------------------------------------------------
(* runScraper: setup                                                       *)

Stopped == {"idle", "done", "killed", "aborted"}

\* scraper.js:158: the fixed wait between two listing pages, in ms
PaceTime == 1000

\* client.post or client.get is called: the request is on its way
issue(r) == inFlight \cup {r}

settle_notAwaited(r) == inFlight

\* the awaited call returns or throws: the request is over
settle(r) == inFlight \ {r}

PDF_ROOT == <<"pdfs">>

\* `${fromDateStr}_to_${toDateStr}` under pdfs/
rangeFolder == <<currentFromStr, currentToStr>>

\* path.join(outputDir, `${contractId}.pdf`)
pdfPath(id) == <<rangeFolder, id>>

contractId == contractsOnPage[idx]

ResetWalker ==
    /\ page' = 0 /\ hasNext' = FALSE /\ contractsOnPage' = <<>> /\ idx' = 0

\* index.js:14-49: the prompt hands its answers to runScraper; the host may
\* invoke the tool again, with the same answers
StartRun ==
    /\ pc \in Stopped
    /\ run < MaxRuns
    /\ PromptAccepts
    /\ run' = run + 1
    /\ pc' = "setup"
    /\ currentFromStr' = answers.fromDate
    /\ currentToStr' = answers.toDate
    /\ cachedIds' = {} /\ stats' = ZeroStats /\ today' = NoClock
    /\ ResetWalker
    /\ prev' = IF pc = "done" /\ stats.failed = 0 /\ pageErrors = 0
                THEN [clean |-> TRUE, listed |-> runListed]
                ELSE NoPrev
    /\ orphans' = IF pc = "killed" THEN orphans ELSE {}
    /\ walked' = <<>> /\ lastPage' = "none" /\ pageLog' = <<>>
    /\ loadedIds' = {} /\ runListed' = {}
    /\ pageErrors' = 0
    /\ event' = "none" /\ failedIds' = {}
    /\ itemLog' = <<>> /\ audit' = ZeroAudit /\ steps' = {}
    /\ slept' = 0 /\ inFlight' = {}
    /\ UNCHANGED <<env, durable, writeFailed, harness>>

\* scraper.js:184-203: ensure pdfs/, load the cache, zero the stats, read the clock
SetupCache ==
    /\ pc = "setup"
    /\ dirs' = dirs \cup {PDF_ROOT}
    /\ cachedIds' = IF cacheExists THEN loadCache(cacheFile) ELSE {}
    /\ loadedIds' = cachedIds'
    /\ stats' = ZeroStats
    /\ today' = clock
    /\ pc' = "range"
    /\ UNCHANGED <<env, cacheExists, cacheFile, files, run, currentFromStr,
                   currentToStr, walker, walked, lastPage, pageLog, runListed,
                   pageErrors, orphans, prev, event, failedIds, writeFailed,
                   itemLog, audit, steps, traffic, harness>>

\* ensureDir, pathExists or readFile rejects: runScraper rejects
SetupFail ==
    /\ pc = "setup"
    /\ pc' = "aborted"
    /\ UNCHANGED <<env, durable, run, driver, walker, history, traffic,
                   harness>>

----------------------------------------------------------------------------
(* scrapeRange                                                             *)

\* scraper.js:45-53: ensureDir(outputDir) succeeds, the page loop starts
ScrapeRangeBegin ==
    /\ pc = "range"
    /\ dirs' = dirs \cup {rangeFolder}
    /\ page' = 0 /\ hasNext' = TRUE
    /\ contractsOnPage' = <<>> /\ idx' = 0
    /\ walked' = Append(walked, [from |-> currentFromStr, to |-> currentToStr])
    /\ lastPage' = "none" /\ pageLog' = <<>> /\ itemLog' = <<>>
    /\ pc' = "page"
    /\ UNCHANGED <<env, cacheExists, cacheFile, files, run, driver, loadedIds,
                   runListed, pageErrors, orphans, prev, event, failedIds,
                   writeFailed, audit, steps, slept, harness>>
    /\ inFlight' = issue("listing")

\* scraper.js:47: ensureDir(outputDir) rejects outside any try: runScraper rejects
EnsureDirFail ==
    /\ pc = "range"
    /\ pc' = "aborted"
    /\ UNCHANGED <<env, durable, run, driver, walker, history, traffic,
                   harness>>

OnPageError_rethrow ==
    /\ hasNext' = FALSE
    /\ pc' = "aborted"
    /\ UNCHANGED <<page, contractsOnPage, idx>>

\* scraper.js:160-163: the catch of the page loop
OnPageError ==
    /\ hasNext' = FALSE
    /\ pc' = "plan"
    /\ UNCHANGED <<page, contractsOnPage, idx>>

OnListing_keepGoing(blocks) ==
    IF extractIds(blocks) = <<>>
    THEN /\ page' = page + 1
         /\ pc' = "pace"
         /\ UNCHANGED <<hasNext, contractsOnPage, idx>>
    ELSE /\ contractsOnPage' = extractIds(blocks)
         /\ idx' = 1
         /\ pc' = "item"
         /\ UNCHANGED <<page, hasNext>>

\* scraper.js:68-92: what the walker does with a listing response
OnListing(blocks) ==
    IF Len(blocks) = 0
    THEN /\ hasNext' = FALSE
         /\ pc' = "plan"
         /\ UNCHANGED <<page, contractsOnPage, idx>>
    ELSE IF Len(extractIds(blocks)) = 0
    THEN /\ hasNext' = FALSE
         /\ pc' = "plan"
         /\ UNCHANGED <<page, contractsOnPage, idx>>
    ELSE /\ contractsOnPage' = extractIds(blocks)
         /\ idx' = 1
         /\ pc' = "item"
         /\ UNCHANGED <<page, hasNext>>

PageOutcome(blocks) ==
    IF Len(blocks) = 0 THEN "empty"
    ELSE IF extractIds(blocks) = <<>> THEN "noids" ELSE "items"

ListingFrame ==
    /\ UNCHANGED <<env, durable, run, driver, walked, loadedIds, orphans, prev,
                   event, failedIds, writeFailed, steps, harness>>
    /\ slept' = 0
    /\ inFlight' = settle("listing")

\* scraper.js:66: the listing POST answers with a page
ListingResponse(blocks) ==
    /\ pc = "page" /\ hasNext
    /\ OnListing(blocks)
    /\ lastPage' = PageOutcome(blocks)
    /\ pageLog' = Append(pageLog, page)
    /\ runListed' = runListed \cup Range(extractIds(blocks))
    /\ pageErrors' = pageErrors
    /\ itemLog' = <<>>
    /\ audit' = [audit EXCEPT !.listed = @ + Len(extractIds(blocks))]
    /\ ListingFrame

PageEmpty  == \E blocks \in EmptyPages : ListingResponse(blocks)

PageNoIds  == \E blocks \in NoIdPages : ListingResponse(blocks)

\* the number of pages of contracts the portal holds for the window at hand:
\* one for a window of a single day, MaxPages for a longer one
PagesListed ==
    IF currentFromStr = currentToStr THEN Min(1, MaxPages) ELSE MaxPages

\* the listing POST answers with a page of contracts
PageItems ==
    /\ portal = "stocked"
    /\ page < PagesListed
    /\ ListingResponse(StockedPage(page))

PageError_countsFailed ==
    /\ pc = "page" /\ hasNext
    /\ OnPageError
    /\ lastPage' = "error"
    /\ pageLog' = Append(pageLog, page)
    /\ pageErrors' = pageErrors + 1
    /\ runListed' = runListed
    /\ stats' = [stats EXCEPT !.failed = @ + 1]
    /\ UNCHANGED <<itemLog, audit>>
    /\ UNCHANGED <<env, durable, run, cachedIds, currentFromStr, currentToStr,
                   today, walked, loadedIds, orphans, prev, event, failedIds,
                   writeFailed, steps, harness>>
    /\ slept' = 0
    /\ inFlight' = settle("listing")

\* scraper.js:66: the listing POST fails (transport error, HTTP error status)
PageError ==
    /\ pc = "page" /\ hasNext
    /\ OnPageError
    /\ lastPage' = "error"
    /\ pageLog' = Append(pageLog, page)
    /\ pageErrors' = pageErrors + 1
    /\ runListed' = runListed
    /\ UNCHANGED <<itemLog, audit>>
    /\ ListingFrame

EndOfPage_skipPage ==
    /\ pc = "item"
    /\ idx > Len(contractsOnPage)
    /\ page' = page + 2
    /\ pc' = "pace"
    /\ event' = "none" /\ steps' = {}
    /\ UNCHANGED <<env, durable, run, driver, hasNext, contractsOnPage, idx,
                   walked, lastPage, pageLog, loadedIds, runListed, pageErrors,
                   orphans, prev, failedIds, writeFailed, itemLog, audit,
                   traffic, harness>>

EndOfPage_noPace ==
    /\ pc = "item"
    /\ idx > Len(contractsOnPage)
    /\ page' = page + 1
    /\ pc' = "page"
    /\ event' = "none" /\ steps' = {}
    /\ inFlight' = issue("listing")
    /\ UNCHANGED <<env, durable, run, driver, hasNext, contractsOnPage, idx,
                   walked, lastPage, pageLog, loadedIds, runListed, pageErrors,
                   orphans, prev, failedIds, writeFailed, itemLog, audit,
                   slept, harness>>

\* scraper.js:157: all ids of the page done, page++
EndOfPage ==
    /\ pc = "item"
    /\ idx > Len(contractsOnPage)
    /\ page' = page + 1
    /\ pc' = "pace"
    /\ event' = "none" /\ steps' = {}
    /\ UNCHANGED <<env, durable, run, driver, hasNext, contractsOnPage, idx,
                   walked, lastPage, pageLog, loadedIds, runListed, pageErrors,
                   orphans, prev, failedIds, writeFailed, itemLog, audit,
                   traffic, harness>>

\* scraper.js:158: sleep(1000), then the loop condition and the next listing
\* POST
Pace ==
    /\ pc = "pace"
    /\ pc' = IF hasNext THEN "page" ELSE "plan"
    /\ slept' = PaceTime
    /\ inFlight' = IF hasNext THEN issue("listing") ELSE inFlight
    /\ UNCHANGED <<env, durable, run, driver, walker, history, harness>>

----------------------------------------------------------------------------
(* scrapeRange: one id of the page (scraper.js:94-155)                     *)

FailureEvents == {"tokenerror", "rejected", "undefined", "nolink",
                  "fetcherror", "openfail", "writefail", "appendfail"}

\* the events with which an awaited remote call returns or throws
RemoteEvents == {"tokenerror", "rejected", "undefined", "nolink", "linked",
                 "fetched", "fetcherror"}

\* the observer's note of what happened to the id at hand
Observe(e) ==
    /\ event' = e
    /\ failedIds' = IF e \in FailureEvents
                    THEN failedIds \cup {contractId} ELSE failedIds
    /\ writeFailed' = IF e \in {"openfail", "writefail"}
                      THEN writeFailed \cup {contractId}
                      ELSE IF e = "written"
                      THEN writeFailed \ {contractId} ELSE writeFailed
    /\ itemLog' = IF e = "taken" THEN Append(itemLog, contractId) ELSE itemLog
    /\ audit' = [audit EXCEPT
                   !.hits = IF e = "taken" /\ contractId \in cachedIds
                            THEN @ + 1 ELSE @,
                   !.tokens = IF e = "throttled" THEN @ + 1 ELSE @,
                   !.appended = @ + Len(LogLines(cacheFile'))
                                  - Len(LogLines(cacheFile))]
    /\ steps' = IF e = "taken" THEN {} ELSE steps \cup {e}
    /\ slept' = IF e = "throttled" THEN answers.throttleTime
                ELSE IF e \in RemoteEvents THEN 0 ELSE slept
    /\ inFlight' = IF e = "throttled" THEN issue("token")
                   ELSE IF e = "linked" THEN settle("token") \cup {"fetch"}
                   ELSE IF e \in {"tokenerror", "rejected", "undefined", "nolink"}
                   THEN settle("token")
                   ELSE IF e \in {"fetched", "fetcherror"} THEN settle("fetch")
                   ELSE inFlight

\* how a token-exchange response reads: rejected (no data or a status other
\* than '1'), accepted without a code, without a link, or with a link
TokenClass(res) ==
    IF ~ (res.data /\ res.status = "1") THEN "rejected"
    ELSE IF res.code = "undefined" THEN "undefined"
    ELSE IF res.code = "nolink" THEN "nolink" ELSE "linked"

ItemFrame ==
    UNCHANGED <<env, run, currentFromStr, currentToStr, today, page, hasNext,
                contractsOnPage, walked, lastPage, pageLog, loadedIds,
                runListed, pageErrors, orphans, prev, harness>>

ItemFailed_retry ==
    /\ stats' = [stats EXCEPT !.failed = @ + 1]
    /\ idx' = idx
    /\ pc' = "throttle"
    /\ UNCHANGED cachedIds

ItemFailed_endsPage ==
    /\ stats' = [stats EXCEPT !.failed = @ + 1]
    /\ idx' = Len(contractsOnPage) + 1
    /\ pc' = "item"
    /\ UNCHANGED cachedIds

\* the catch and the else branches: failed++, on to the next id
ItemFailed ==
    /\ stats' = [stats EXCEPT !.failed = @ + 1]
    /\ idx' = idx + 1
    /\ pc' = "item"
    /\ UNCHANGED cachedIds

NextItem_noSkip ==
    /\ pc = "item"
    /\ idx <= Len(contractsOnPage)
    /\ stats' = [stats EXCEPT !.scraped = @ + 1]
    /\ idx' = idx
    /\ pc' = "throttle"
    /\ UNCHANGED <<durable, cachedIds>>
    /\ Observe("taken")
    /\ ItemFrame

\* scraper.js:94-105: scraped++, then skip a cached id or start resolving
NextItem ==
    /\ pc = "item"
    /\ idx <= Len(contractsOnPage)
    /\ IF contractId \in cachedIds
       THEN /\ stats' = [stats EXCEPT !.scraped = @ + 1, !.skipped = @ + 1]
            /\ idx' = idx + 1
            /\ pc' = "item"
       ELSE /\ stats' = [stats EXCEPT !.scraped = @ + 1]
            /\ idx' = idx
            /\ pc' = "throttle"
    /\ UNCHANGED <<durable, cachedIds>>
    /\ Observe("taken")
    /\ ItemFrame

\* scraper.js:109: sleep(options.throttleTime)
Throttle ==
    /\ pc = "throttle"
    /\ pc' = "token"
    /\ UNCHANGED <<durable, cachedIds, stats, idx>>
    /\ Observe("throttled")
    /\ ItemFrame

OnToken_ignoreStatus(res) ==
    IF res.code = "undefined"
    THEN ItemFailed
    ELSE IF res.code \in {"href", "anchor"}
    THEN /\ pc' = "fetch"
         /\ UNCHANGED <<stats, idx, cachedIds>>
    ELSE ItemFailed

OnToken_fetchAnyway(res) ==
    IF res.data /\ res.status = "1"
    THEN IF res.code = "undefined"
         THEN ItemFailed
         ELSE /\ pc' = "fetch"
              /\ UNCHANGED <<stats, idx, cachedIds>>
    ELSE ItemFailed

\* scraper.js:116-149: what the resolver does with a token-exchange response
OnToken(res) ==
    IF res.data /\ res.status = "1"
    THEN IF res.code = "undefined"
         THEN ItemFailed                       \* .match of undefined throws
         ELSE IF res.code \in {"href", "anchor"}
         THEN /\ pc' = "fetch"
              /\ UNCHANGED <<stats, idx, cachedIds>>
         ELSE ItemFailed                       \* NoURL
    ELSE ItemFailed                            \* ErrStatus

\* scraper.js:114: the sbtCaptcha POST answers
TokenResponse ==
    /\ pc = "token"
    /\ UNCHANGED durable
    /\ \E res \in TokenResponses : OnToken(res) /\ Observe(TokenClass(res))
    /\ ItemFrame

\* scraper.js:114: the sbtCaptcha POST fails
TokenError ==
    /\ pc = "token"
    /\ ItemFailed
    /\ UNCHANGED durable
    /\ Observe("tokenerror")
    /\ ItemFrame

\* scraper.js:129: the GET of the document answers
FetchOk ==
    /\ pc = "fetch"
    /\ pc' = "write"
    /\ UNCHANGED <<durable, cachedIds, stats, idx>>
    /\ Observe("fetched")
    /\ ItemFrame

\* scraper.js:129: the GET of the document fails
FetchError ==
    /\ pc = "fetch"
    /\ ItemFailed
    /\ UNCHANGED durable
    /\ Observe("fetcherror")
    /\ ItemFrame

SetFile(path, state) ==
    files' = [q \in DOMAIN files \cup {path} |->
                 IF q = path THEN state ELSE files[q]]

\* scraper.js:130: writeFile opens (truncates) the file and starts writing
WriteBegin ==
    /\ pc = "write"
    /\ SetFile(pdfPath(contractId), "partial")
    /\ pc' = "writing"
    /\ UNCHANGED <<cacheExists, cacheFile, dirs, cachedIds, stats, idx>>
    /\ Observe("opened")
    /\ ItemFrame

\* scraper.js:130: writeFile cannot open the file
WriteOpenFail ==
    /\ pc = "write"
    /\ ItemFailed
    /\ UNCHANGED durable
    /\ Observe("openfail")
    /\ ItemFrame

\* scraper.js:130: writeFile resolves, the file is whole
WriteEnd ==
    /\ pc = "writing"
    /\ SetFile(pdfPath(contractId), "complete")
    /\ pc' = "append"
    /\ UNCHANGED <<cacheExists, cacheFile, dirs, cachedIds, stats, idx>>
    /\ Observe("written")
    /\ ItemFrame

WriteFail_swallowed ==
    /\ pc = "writing"
    /\ pc' = "append"
    /\ UNCHANGED <<durable, cachedIds, stats, idx>>
    /\ Observe("writefail")
    /\ ItemFrame

\* scraper.js:130: writeFile rejects midway, the file stays as far as written
WriteFail ==
    /\ pc = "writing"
    /\ ItemFailed
    /\ UNCHANGED durable
    /\ Observe("writefail")
    /\ ItemFrame

AppendOk_overwrite ==
    /\ pc = "append"
    /\ cacheFile' = contractId \o <<NL>>
    /\ cacheExists' = TRUE
    /\ pc' = "add"
    /\ UNCHANGED <<files, dirs, cachedIds, stats, idx>>
    /\ Observe("appended")
    /\ ItemFrame

AppendOk_twice ==
    /\ pc = "append"
    /\ cacheFile' = cacheFile \o contractId \o <<NL>> \o contractId \o <<NL>>
    /\ cacheExists' = TRUE
    /\ pc' = "add"
    /\ UNCHANGED <<files, dirs, cachedIds, stats, idx>>
    /\ Observe("appended")
    /\ ItemFrame

\* scraper.js:132: appendFile adds the id and a newline to the log
AppendOk ==
    /\ pc = "append"
    /\ cacheFile' = cacheFile \o contractId \o <<NL>>
    /\ cacheExists' = TRUE
    /\ pc' = "add"
    /\ UNCHANGED <<files, dirs, cachedIds, stats, idx>>
    /\ Observe("appended")
    /\ ItemFrame

\* scraper.js:132: appendFile rejects
AppendFail ==
    /\ pc = "append"
    /\ ItemFailed
    /\ UNCHANGED durable
    /\ Observe("appendfail")
    /\ ItemFrame

AddToSet_uncounted ==
    /\ pc = "add"
    /\ cachedIds' = cachedIds \cup {contractId}
    /\ stats' = stats
    /\ idx' = idx + 1
    /\ pc' = "item"
    /\ UNCHANGED durable
    /\ Observe("downloaded")
    /\ ItemFrame

\* scraper.js:133-134: cachedIds.add, downloaded++
AddToSet ==
    /\ pc = "add"
    /\ cachedIds' = cachedIds \cup {contractId}
    /\ stats' = [stats EXCEPT !.downloaded = @ + 1]
    /\ idx' = idx + 1
    /\ pc' = "item"
    /\ UNCHANGED durable
    /\ Observe("downloaded")
    /\ ItemFrame

----------------------------------------------------------------------------
(* runScraper: the processing loop after scrapeRange returned               *)
(* (scraper.js:217-241)                                                    *)

nextStartDate_noStep == parseDate(currentToStr)

\* scraper.js:220-221
nextStartDate == addDays(parseDate(currentToStr), 1)

pastToday_orToday(date) == DateGT(date, today) \/ formatDate(date) = formatDate(today)

\* scraper.js:223 and 231: date > today
pastToday(date) == DateGT(date, today)

nextEndDate_noCeiling ==
    addDays(addMonths(nextStartDate, 3), -1)

nextEndDate_capYesterday ==
    LET e == addDays(addMonths(nextStartDate, 3), -1)
    IN  IF pastToday(e) THEN addDays(today, -1) ELSE e

\* scraper.js:228-233
nextEndDate ==
    LET e == addDays(addMonths(nextStartDate, 3), -1)
    IN  IF pastToday(e) THEN today ELSE e

Plan_ignoreFlag ==
    /\ pc = "plan"
    /\ IF pastToday(nextStartDate)
       THEN /\ pc' = "done"
            /\ UNCHANGED <<currentFromStr, currentToStr, lastPage, pageLog>>
       ELSE /\ currentFromStr' = formatDate(nextStartDate)
            /\ currentToStr' = formatDate(nextEndDate)
            /\ IF DateGT(nextStartDate, nextEndDate)
               THEN /\ pc' = "done"
                    /\ UNCHANGED <<lastPage, pageLog>>
               ELSE /\ pc' = "range"
                    /\ lastPage' = "none"
                    /\ pageLog' = <<>>
    /\ UNCHANGED <<env, durable, run, cachedIds, stats, today, walker, walked,
                   loadedIds, runListed, pageErrors, orphans, prev, event,
                   failedIds, writeFailed, itemLog, audit, steps, traffic,
                   harness>>

\* scraper.js:217-241: after scrapeRange returned, stop or plan the next window
Plan ==
    /\ pc = "plan"
    /\ IF ~ answers.repeatTillDate
       THEN /\ pc' = "done"
            /\ UNCHANGED <<currentFromStr, currentToStr, lastPage, pageLog>>
       ELSE IF pastToday(nextStartDate)
       THEN /\ pc' = "done"
            /\ UNCHANGED <<currentFromStr, currentToStr, lastPage, pageLog>>
       ELSE /\ currentFromStr' = formatDate(nextStartDate)
            /\ currentToStr' = formatDate(nextEndDate)
            /\ IF DateGT(nextStartDate, nextEndDate)
               THEN /\ pc' = "done"
                    /\ UNCHANGED <<lastPage, pageLog>>
               ELSE /\ pc' = "range"
                    /\ lastPage' = "none"
                    /\ pageLog' = <<>>
    /\ UNCHANGED <<env, durable, run, cachedIds, stats, today, walker, walked,
                   loadedIds, runListed, pageErrors, orphans, prev, event,
                   failedIds, writeFailed, itemLog, audit, steps, traffic,
                   harness>>

----------------------------------------------------------------------------
(* The host                                                                *)

\* the host kills the process: its memory is gone, the disk stays
Kill ==
    /\ pc \notin Stopped
    /\ pc' = "killed"
    /\ orphans' = IF pc = "append" THEN {contractId} ELSE {}
    /\ cachedIds' = {} /\ stats' = ZeroStats
    /\ currentFromStr' = NoDate /\ currentToStr' = NoDate /\ today' = NoClock
    /\ ResetWalker
    /\ walked' = <<>> /\ lastPage' = "none" /\ pageLog' = <<>>
    /\ loadedIds' = {} /\ runListed' = {}
    /\ pageErrors' = 0 /\ prev' = NoPrev
    /\ event' = "none" /\ failedIds' = {}
    /\ itemLog' = <<>> /\ audit' = ZeroAudit /\ steps' = {}
    /\ slept' = 0 /\ inFlight' = {}
    /\ UNCHANGED <<env, durable, run, writeFailed, harness>>

Next ==
    \/ StartRun \/ SetupCache \/ SetupFail
    \/ ScrapeRangeBegin \/ EnsureDirFail
    \/ PageEmpty \/ PageNoIds \/ PageItems \/ PageError
    \/ EndOfPage \/ Pace
    \/ NextItem \/ Throttle
    \/ TokenResponse \/ TokenError
    \/ FetchOk \/ FetchError
    \/ WriteBegin \/ WriteOpenFail \/ WriteEnd \/ WriteFail
    \/ AppendOk \/ AppendFail \/ AddToSet
    \/ Plan
    \/ Kill

Spec == Init /\ [][Next]_vars

----------------------------------------------------------------------------
(* The date helpers on their own: addMonths applied to every calendar day   *)
(* of the explored years, at every time of day.                            *)

MonthsStep == 3

InitAddMonths ==
    /\ fnArg \in { [parseDate(s) EXCEPT !.t = tk] :
                     s \in CalendarDates, tk \in 0..(TicksPerDay - 1) }
    /\ fnRes = NoClock
    /\ portal = "bare" /\ clock = NoClock /\ answers = Answers(NoDate, FALSE)
    /\ InitDurable
    /\ InitProcess

ApplyAddMonths ==
    /\ fnArg # NoClock /\ fnRes = NoClock
    /\ fnRes' = addMonths(fnArg, MonthsStep)
    /\ UNCHANGED <<env, durable, pc, run, driver, walker, history, traffic,
                   fnArg>>

NextAddMonths == ApplyAddMonths

SpecAddMonths == InitAddMonths /\ [][NextAddMonths]_vars

----------------------------------------------------------------------------
(* The cache load on its own: a run is started on every log text of up to   *)
(* MaxLogLen characters, and on a missing log, over a storage that does not *)
(* fault.                                                                  *)

MaxLogLen == 4

LogChars == {"a", "b", SP, NL}

LogTexts == UNION { [1..k -> LogChars] : k \in 0..MaxLogLen }

InitLoad ==
    /\ portal = "bare"
    /\ clock \in StockedClocks
    /\ answers \in { Answers(to, FALSE) : to \in StockedToDates }
    /\ \/ cacheExists = FALSE /\ cacheFile = <<>>
       \/ cacheExists = TRUE /\ cacheFile \in LogTexts
    /\ files = [p \in {} |-> "complete"] /\ dirs = {}
    /\ InitProcess
    /\ fnArg = NoClock /\ fnRes = NoClock

NextLoad == StartRun \/ SetupCache

SpecLoad == InitLoad /\ [][NextLoad]_vars

----------------------------------------------------------------------------
(* The date strings as text: parseDate and formatDate applied to the        *)
(* characters of a DD-MM-YYYY string, for every real calendar day of the    *)
(* explored years and of two years written with leading zeros.             *)

DASH == "-"

DigitChars == <<"0", "1", "2", "3", "4", "5", "6", "7", "8", "9">>

DigitVal(c) == (CHOOSE k \in DOMAIN DigitChars : DigitChars[k] = c) - 1

\* Number(text) of a string of decimal digits (leading zeros allowed)
RECURSIVE Number(_)
Number(text) ==
    IF text = <<>> THEN 0
    ELSE 10 * Number(SubSeq(text, 1, Len(text) - 1)) + DigitVal(text[Len(text)])

\* String(n) of a number n >= 0
RECURSIVE String(_)
String(n) ==
    IF n < 10 THEN <<DigitChars[n + 1]>>
    ELSE String(n \div 10) \o <<DigitChars[(n % 10) + 1]>>

\* String.prototype.padStart(width, '0')
RECURSIVE padStart(_, _)
padStart(text, width) ==
    IF Len(text) >= width THEN text ELSE padStart(<<"0">> \o text, width)

\* String.prototype.split('-')
RECURSIVE SplitDash(_)
SplitDash(text) ==
    IF text = <<>> THEN << <<>> >>
    ELSE LET rest == SplitDash(Tail(text))
         IN  IF Head(text) = DASH
             THEN << <<>> >> \o rest
             ELSE << <<Head(text)>> \o rest[1] >> \o Tail(rest)

\* scraper.js:17-20: dateStr.split('-').map(Number), then new Date(y, m - 1, d)
parseDateStr(text) ==
    LET parts == SplitDash(text)
    IN  parseDate([dd   |-> Number(parts[1]),
                   mm   |-> Number(parts[2]),
                   yyyy |-> Number(parts[3])])

\* scraper.js:22-27: day and month padded to two digits, the year as it is
formatDateStr(date) ==
    padStart(String(date.d), 2) \o <<DASH>>
      \o padStart(String(date.m + 1), 2) \o <<DASH>>
      \o String(date.y)

\* the DD-MM-YYYY string of a date string's three fields
dateText(s) ==
    padStart(String(s.dd), 2) \o <<DASH>>
      \o padStart(String(s.mm), 2) \o <<DASH>>
      \o padStart(String(s.yyyy), 4)

\* years that a DD-MM-YYYY string writes with leading zeros
EarlyYears == {99, 999}

RoundTripDates ==
    CalendarDates
      \cup { s \in [dd : 1..31, mm : 1..12, yyyy : EarlyYears] :
               s.dd <= DaysInMonth(s.yyyy, s.mm - 1) }

NoRoundTrip == [text |-> <<>>, date |-> NoClock]

InitRoundTrip ==
    /\ fnArg \in { [s |-> dateText(x),
                    d |-> [parseDate(x) EXCEPT !.t = tk]] :
                     x \in RoundTripDates, tk \in 0..(TicksPerDay - 1) }
    /\ fnRes = NoRoundTrip
    /\ portal = "bare" /\ clock = NoClock /\ answers = Answers(NoDate, FALSE)
    /\ InitDurable
    /\ InitProcess

ApplyRoundTrip ==
    /\ fnRes = NoRoundTrip
    /\ fnRes' = [text |-> formatDateStr(parseDateStr(fnArg.s)),
                 date |-> parseDateStr(formatDateStr(fnArg.d))]
    /\ UNCHANGED <<env, durable, pc, run, driver, walker, history, traffic,
                   fnArg>>

NextRoundTrip == ApplyRoundTrip

SpecRoundTrip == InitRoundTrip /\ [][NextRoundTrip]_vars

----------------------------------------------------------------------------
(* Calendar reference used to state the properties: the ordinal of a day   *)
(* (days since 31-12-0000 in the proleptic Gregorian calendar) and the     *)
(* calendar month arithmetic the design asks for.                          *)

DaysBeforeMonth ==
    <<0, 31, 59, 90, 120, 151, 181, 212, 243, 273, 304, 334>>

\* ordinal of the day d of month m (1-based) of year y
Ordinal(y, m, d) ==
    LET py == y - 1
    IN  365 * py + (py \div 4) - (py \div 100) + (py \div 400)
          + DaysBeforeMonth[m] + (IF m > 2 /\ IsLeap(y) THEN 1 ELSE 0) + d

OrdStr(s)  == Ordinal(s.yyyy, s.mm, s.dd)
OrdDate(date) == Ordinal(date.y, date.m + 1, date.d)

LastDayOf(y, m) ==
    IF m = 2 THEN (IF IsLeap(y) THEN 29 ELSE 28)
    ELSE IF m \in {4, 6, 9, 11} THEN 30 ELSE 31

IsRealDate(s) ==
    /\ s.mm \in 1..12
    /\ s.dd \in 1..LastDayOf(s.yyyy, s.mm)

\* the date string k calendar months after s, the day clamped to the month
CalendarMonthsLater(s, k) ==
    LET n  == s.yyyy * 12 + (s.mm - 1) + k
        yy == n \div 12
        mm == (n % 12) + 1
        ld == LastDayOf(yy, mm)
    IN  [dd |-> IF s.dd <= ld THEN s.dd ELSE ld, mm |-> mm, yyyy |-> yy]

----------------------------------------------------------------------------
(* Properties                                                              *)

Running == pc \notin (Stopped \cup {"setup"})

ResolverPcs == {"item", "throttle", "token", "fetch", "write", "writing",
                "append", "add"}

\* the windows planned so far in this run: those walked, and the one the
\* planner has just produced
planned ==
    IF pc = "range" /\ walked # <<>>
    THEN Append(walked, [from |-> currentFromStr, to |-> currentToStr])
    ELSE walked

HasCompleteFile(id) ==
    \E path \in DOMAIN files : path[2] = id /\ files[path] = "complete"

\* C1: at every reachable state, kill points included, every id in the cache
\* log has a document file whose write completed; an id whose file is missing
\* or only partially written is not in the log.
C1_LoggedOnlyIfWritten ==
    \A line \in Range(LogLines(cacheFile)) : HasCompleteFile(line)

\* C2: an id whose file was written when the process was killed before the
\* append is not in the cache loaded by the next run (so it is resolved again,
\* not skipped).
C2_OrphanNotLoaded ==
    Running => orphans \cap loadedIds = {}

\* C3: a second run over the same span and the same listing, after a first
\* run that resolved every listed id, downloads nothing and counts every item
\* as skipped.
C3_SecondRunAllSkipped ==
    (pc = "done" /\ prev.clean /\ runListed = prev.listed)
        => (stats.downloaded = 0 /\ stats.skipped = stats.scraped)

\* C4: no id is appended to the cache log a second time, across pages,
\* windows, runs and kills.
C4_LoggedOnce ==
    LET ls == LogLines(cacheFile)
    IN  \A i, j \in DOMAIN ls : i # j => ls[i] # ls[j]

\* C5: consecutive windows of a run are contiguous and well formed: the next
\* window starts the day after the previous one ends and does not start after
\* its own end.
C5_WindowsContiguous ==
    \A i \in 1..(Len(planned) - 1) :
        /\ OrdStr(planned[i + 1].from) = OrdStr(planned[i].to) + 1
        /\ OrdStr(planned[i + 1].from) <= OrdStr(planned[i + 1].to)

C5_Witness ==
    /\ Len(walked) >= 3
    /\ walked[1].to.dd = LastDayOf(walked[1].to.yyyy, walked[1].to.mm)

\* C6: the window planned after a window ending on e (with e + 1 day not after
\* today) starts on e + 1 day and ends on the earlier of (e + 1 day) + 3
\* calendar months - 1 day and today.
C6_NextWindow ==
    \A i \in 1..(Len(planned) - 1) :
        LET e == planned[i].to
            w == planned[i + 1]
        IN  OrdStr(e) + 1 <= OrdDate(today) =>
              /\ IsRealDate(w.from) /\ IsRealDate(w.to)
              /\ OrdStr(w.from) = OrdStr(e) + 1
              /\ OrdStr(w.to) =
                   Min(OrdStr(CalendarMonthsLater(w.from, MonthsStep)) - 1,
                       OrdDate(today))

C6_Witness ==
    /\ Len(walked) = 4
    /\ walked[2] = [from |-> DateOf(FirstYear, 11, 30),
                    to   |-> DateOf(FirstYear + 1, 2, 28)]
    /\ walked[4].to = [dd |-> today.d, mm |-> today.m + 1, yyyy |-> today.y]

\* C7: addMonths(d, 3) is the same day of month three calendar months later,
\* or the last day of that month when it has no such day; the time of day is
\* kept.
C7_AddMonthsClamps ==
    fnRes # NoClock =>
        /\ [dd |-> fnRes.d, mm |-> fnRes.m + 1, yyyy |-> fnRes.y]
             = CalendarMonthsLater(
                 [dd |-> fnArg.d, mm |-> fnArg.m + 1, yyyy |-> fnArg.y],
                 MonthsStep)
        /\ fnRes.t = fnArg.t

C7_Witness ==
    /\ fnArg = [y |-> FirstYear + 1, m |-> 0, d |-> 31, t |-> 0]
    /\ fnRes = [y |-> FirstYear + 1, m |-> 3, d |-> 30, t |-> 0]

\* C8: in extend-to-present mode a further window is planned exactly when the
\* day after the walked window's end is not after today; with toDate the day
\* before today exactly one further window is walked, it ends today, and the
\* run stops.
C8_FurtherWindowIffNotPastToday ==
    /\ \A i \in 1..(Len(planned) - 1) :
           /\ answers.repeatTillDate
           /\ OrdStr(planned[i].to) + 1 <= OrdDate(today)
    /\ (pc = "done" /\ answers.repeatTillDate)
           => OrdStr(walked[Len(walked)].to) + 1 > OrdDate(today)
    /\ (pc = "done" /\ answers.repeatTillDate
          /\ OrdStr(answers.toDate) + 1 = OrdDate(today))
           => /\ Len(walked) = 2
              /\ OrdStr(walked[2].from) = OrdDate(today)
              /\ OrdStr(walked[2].to) = OrdDate(today)

C8_Witness ==
    /\ pc = "done" /\ answers.repeatTillDate
    /\ OrdStr(answers.toDate) + 1 = OrdDate(today)
    /\ today.t = 0
    /\ Len(walked) = 2

\* C9: once a listing page yields zero blocks, or blocks without any id, no
\* further page of the window is requested and no item is resolved for it.
C9_EmptyPageEndsWalk ==
    /\ lastPage \in {"empty", "noids"} => pc \in {"plan", "done"}
    /\ pc \in {"page", "pace"} => lastPage \in {"none", "items"}
    /\ pc \in ResolverPcs => lastPage = "items"

C9_Witness ==
    /\ lastPage = "noids" /\ pc = "plan"
    /\ pageLog = <<0, 1>>
    /\ stats.scraped > 0

\* C10: a listing transport error ends the walk of the window without asking
\* for the page again and without ending the run: the driver goes on to plan,
\* and stops only when the planner has no further window.
C10_PageErrorEndsWindowOnly ==
    /\ lastPage = "error" => pc \in {"plan", "done"}
    /\ \A i, j \in DOMAIN pageLog : i # j => pageLog[i] # pageLog[j]
    /\ (lastPage = "error" /\ pc = "done")
           => \/ ~ answers.repeatTillDate
              \/ OrdStr(walked[Len(walked)].to) + 1 > OrdDate(today)

C10_Witness ==
    /\ pc = "page" /\ Len(walked) = 3
    /\ pageErrors = 2
    /\ pageLog = <<>>

\* the step that follows each step of the resolver when it succeeds
StepAfter(p) ==
    CASE p = "token"   -> "fetch"
      [] p = "fetch"   -> "write"
      [] p = "write"   -> "writing"
      [] p = "writing" -> "append"
      [] p = "append"  -> "add"
      [] OTHER         -> "none"

FailingPcs == {"token", "fetch", "write", "writing", "append"}

\* C11: whenever a step of resolving an id (token exchange, link resolution,
\* document fetch, file write, cache append) does not succeed, failed grows by
\* exactly one and no other counter moves, and the walk stands at the next id
\* of the same page of the same window with the page loop still on.
C11_FailureCountedOnce ==
    [][ (pc \in FailingPcs /\ pc' \notin {StepAfter(pc), "killed"})
          => /\ stats' = [stats EXCEPT !.failed = @ + 1]
             /\ pc' = "item"
             /\ idx' = idx + 1
             /\ contractsOnPage' = contractsOnPage
             /\ page' = page /\ hasNext' /\ hasNext
             /\ currentFromStr' = currentFromStr
             /\ currentToStr' = currentToStr
             /\ walked' = walked ]_vars

\* two failures earlier in the run, and an id of the second window is about
\* to be recorded as downloaded
C11_Witness ==
    /\ stats.failed >= 2 /\ stats.downloaded >= 1
    /\ Len(walked) = 2 /\ pc = "add"

\* runScraper got past its setup (the cache is loaded and the clock is read)
SetupDone == today # NoClock

\* C12: a failure to create a window's output directory or to write a document
\* file is never fatal: once its setup is over, a run is never ended by an
\* error (it goes on to the planner and reaches Done).
C12_StorageFailureNotFatal ==
    pc = "aborted" => ~ SetupDone

\* C13: an id whose latest document write failed is neither in the cache log
\* nor in the in-memory set, in the run of the failure and in every later run,
\* so the id is attempted again and never skipped.
C13_WriteFailureNotCached ==
    writeFailed \cap (Range(LogLines(cacheFile)) \cup cachedIds) = {}

\* C14: a token-exchange response without data, or with a status other than
\* '1', ends the id at once: failed grows by one, no other counter moves, the
\* id enters neither the log nor the set, no file is touched, and the walk
\* stands at the next id (no link is resolved, nothing is fetched or written).
C14_RejectedTokenFails ==
    [][ event' = "rejected"
          => /\ pc = "token" /\ pc' = "item"
             /\ stats' = [stats EXCEPT !.failed = @ + 1]
             /\ idx' = idx + 1
             /\ UNCHANGED <<durable, cachedIds>> ]_vars

\* the first id of the run was rejected by the token exchange: nothing is on
\* disk and the second id is next
C14_Witness ==
    /\ event = "rejected" /\ pc = "item" /\ idx = 2
    /\ stats = [scraped |-> 1, downloaded |-> 0, skipped |-> 0, failed |-> 1]
    /\ DOMAIN files = {} /\ cacheFile = <<>>

\* C15: an accepted token-exchange response from which neither the href
\* pattern nor the fallback anchor yields a link (or that has no code at all)
\* ends the id at once: failed grows by one, no other counter moves, no file,
\* log or set changes, and the walk stands at the next id (nothing is fetched
\* or written).
C15_NoLinkFails ==
    [][ event' \in {"nolink", "undefined"}
          => /\ pc = "token" /\ pc' = "item"
             /\ stats' = [stats EXCEPT !.failed = @ + 1]
             /\ idx' = idx + 1
             /\ UNCHANGED <<durable, cachedIds>> ]_vars

\* the second id of the first page got an accepted response without a link,
\* after the first id was downloaded: only the first id's file is on disk
C15_Witness ==
    /\ event = "nolink" /\ pc = "item" /\ idx = 3
    /\ stats = [scraped |-> 2, downloaded |-> 1, skipped |-> 0, failed |-> 1]
    /\ \A path \in DOMAIN files : path[2] = contractsOnPage[1]
    /\ LogLines(cacheFile) = <<contractsOnPage[1]>>

\* C16: an id that is in the in-memory cache when the for-of loop reaches it
\* raises skipped (and scraped) by one and is done, with no file, log or set
\* changed; an id that is not goes to the resolver, no step of the resolver
\* is ever taken for an id of the cache, and the resolver hands the walk back
\* only by raising exactly one of downloaded and failed by one.
C16_SkipOrResolve ==
    [][ /\ (pc = "item" /\ idx <= Len(contractsOnPage) /\ pc' # "killed")
            => IF contractId \in cachedIds
               THEN /\ stats' = [stats EXCEPT !.scraped = @ + 1,
                                              !.skipped = @ + 1]
                    /\ pc' = "item" /\ idx' = idx + 1
                    /\ UNCHANGED <<durable, cachedIds>>
               ELSE /\ stats' = [stats EXCEPT !.scraped = @ + 1]
                    /\ pc' = "throttle" /\ idx' = idx
                    /\ UNCHANGED <<durable, cachedIds>>
        /\ (pc' \in ResolverPcs \ {"item"})
            => contractsOnPage'[idx'] \notin cachedIds'
        /\ (pc \in ResolverPcs \ {"item"})
            => \/ pc' \in (ResolverPcs \ {"item"}) /\ stats' = stats
               \/ pc' = "killed"
               \/ /\ pc' = "item" /\ idx' = idx + 1
                  /\ stats' \in { [stats EXCEPT !.downloaded = @ + 1],
                                  [stats EXCEPT !.failed = @ + 1] } ]_vars

\* in the first run, the id downloaded from page 0 has just been skipped on
\* page 1
C16_Witness ==
    /\ run = 1 /\ loadedIds = {}
    /\ event = "taken" /\ pc = "item"
    /\ page = 1 /\ idx = 2
    /\ contractsOnPage[1] \in cachedIds

\* C17: within a window the pages requested are 0, 1, 2, ... with none left
\* out or asked twice; the ids of a page are taken up in the order of their
\* extraction, the id at hand being the next of that order, and all of them
\* before the next page is requested; every window walked lies wholly after
\* the one walked before it.
C17_InOrder ==
    /\ \A i \in DOMAIN pageLog : pageLog[i] = i - 1
    /\ Len(itemLog) <= Len(contractsOnPage)
    /\ itemLog = SubSeq(contractsOnPage, 1, Len(itemLog))
    /\ pc \in ResolverPcs
         => /\ page = Len(pageLog) - 1
            /\ contractsOnPage = extractIds(StockedPage(page))
            /\ pc # "item" => itemLog[Len(itemLog)] = contractId
    /\ (pc \in {"page", "pace"} /\ page > 0)
         => /\ itemLog = contractsOnPage
            /\ page = Len(pageLog)
    /\ \A i \in 1..(Len(walked) - 1) :
         /\ OrdStr(walked[i].to) < OrdStr(walked[i + 1].from)
         /\ OrdStr(walked[i + 1].from) <= OrdStr(walked[i + 1].to)

\* a run that walked two pages of ids in its first window and one in its
\* second, and asked each window for the page after its last
C17_Witness ==
    /\ pc = "done" /\ Len(walked) = 2
    /\ pageLog = <<0, 1>>
    /\ stats.scraped = 6

\* the for-of loop stands between two ids, or outside any page
BetweenItems == pc \in {"range", "page", "pace", "item", "plan", "done"}

\* C18: whenever the driver is between two ids, and at Done, scraped equals
\* downloaded + skipped + failed; scraped is the number of ids extracted from
\* the listing pages of the run (less those of the current page not yet taken
\* up); skipped is the number of ids that were in the cache when taken up.
C18_Accounting ==
    /\ BetweenItems
         => stats.scraped = stats.downloaded + stats.skipped + stats.failed
    /\ (pc \in ResolverPcs \ {"item"})
         => stats.scraped = stats.downloaded + stats.skipped + stats.failed + 1
    /\ stats.scraped
         = audit.listed
             - (IF pc \in ResolverPcs
                THEN Len(contractsOnPage) - Len(itemLog) ELSE 0)
    /\ pc = "done" => stats.scraped = audit.listed
    /\ stats.skipped = audit.hits

\* a second run over one window of four listed ids, three of them in the
\* loaded cache: scraped 4, skipped 3, and the fourth downloaded or failed
C18_Witness ==
    /\ pc = "done" /\ run = 2 /\ Len(walked) = 1
    /\ audit.listed = 4 /\ audit.hits = 3
    /\ stats.scraped = 4 /\ stats.skipped = 3
    /\ stats.downloaded + stats.failed = 1

\* C19 as stated: an id counted as failed in this run is not submitted to the
\* token exchange again before the run ends.
C19_FailedIdNotResubmitted ==
    pc = "token" => contractId \notin failedIds

\* C19, amended: no listed occurrence of an id is submitted to the token
\* exchange more than once: the token requests of the run are as many as the
\* ids taken up that were not in the cache (less the one still throttled).
C19_OneRequestPerOccurrence ==
    audit.tokens = stats.scraped - audit.hits
                     - (IF pc = "throttle" THEN 1 ELSE 0)

\* both ids of page 0 failed, and the id listed again on page 1 is at the
\* token exchange: the third request for the third occurrence
C19_Witness ==
    /\ pc = "token" /\ page = 1
    /\ contractId \in failedIds
    /\ stats.failed = 2 /\ stats.scraped = 3
    /\ audit.tokens = 3

\* a date input that is not of the DD-MM-YYYY shape, or names no calendar day
MalformedDate(s) == ~ validateDate(s) \/ ~ IsRealDate(s)

\* C20: with an empty credential or a malformed date input no crawling ever
\* begins: no window is walked, no listing or token-exchange request is
\* issued, and no directory, file or cache entry is created.
C20_BadConfigNoCrawl ==
    (\/ answers.cookie = ""
     \/ MalformedDate(answers.fromDate)
     \/ MalformedDate(answers.toDate))
      => /\ walked = <<>> /\ pc \in Stopped \cup {"setup"}
         /\ pageLog = <<>> /\ audit = ZeroAudit
         /\ dirs = {} /\ DOMAIN files = {}
         /\ ~ cacheExists /\ cacheFile = <<>>

\* C21: while a token-exchange request is out, the sleep that ended since the
\* previous remote call ended is the configured throttleTime; while a listing
\* request is out for a page other than page 0, it is the fixed 1000 ms wait
\* (and none for page 0); and no remote call is out while either wait runs.
C21_WaitsBeforeRequests ==
    /\ pc = "token" => slept = answers.throttleTime
    /\ pc = "page" => slept = (IF page = 0 THEN 0 ELSE PaceTime)
    /\ pc \in {"throttle", "pace"} => inFlight = {}

\* page 1 of the second window is requested after the pacing wait although
\* both ids of its page 0 were skipped: the only two token requests of the
\* run were those of the first window
C21_Witness ==
    /\ pc = "page" /\ page = 1 /\ Len(walked) = 2
    /\ slept = PaceTime
    /\ audit.tokens = 2 /\ stats.skipped = 4

\* C22: at every moment at most one remote request is out, and it is the one
\* the thread of control is waiting for: the listing POST, the token-exchange
\* POST or the document GET; none is out at any other point of a run.
C22_OneRequestInFlight ==
    /\ Cardinality(inFlight) <= 1
    /\ inFlight = (IF pc = "page" THEN {"listing"}
                   ELSE IF pc = "token" THEN {"token"}
                   ELSE IF pc = "fetch" THEN {"fetch"} ELSE {})

\* the document GET of the second id of a page is the only request out, the
\* listing POST and two token exchanges being over
C22_Witness ==
    /\ pc = "fetch" /\ idx = 2
    /\ inFlight = {"fetch"}
    /\ audit.tokens = 2 /\ pageLog = <<0>>

\* C23: with repeatTillDate false at most one window is ever handed to the
\* walker, it is the caller's fromDate to toDate, no window is planned after
\* its walk ended (with an empty page, a page without ids or a transport
\* error), and at Done exactly that window was walked and the current window
\* is still the caller's.
C23_SingleWindow ==
    ~ answers.repeatTillDate
      => /\ Len(walked) <= 1
         /\ walked # <<>>
              => walked[1] = [from |-> answers.fromDate, to |-> answers.toDate]
         /\ pc = "range" => walked = <<>>
         /\ pc = "plan" => lastPage \in {"empty", "noids", "error"}
         /\ pc = "done"
              => /\ Len(walked) = 1
                 /\ currentFromStr = answers.fromDate
                 /\ currentToStr = answers.toDate

\* Done with repeatTillDate false after a walk that a transport error ended
\* on its second page, well before today
C23_Witness ==
    /\ pc = "done" /\ ~ answers.repeatTillDate
    /\ lastPage = "error" /\ pageLog = <<0, 1>>
    /\ OrdStr(answers.toDate) < OrdDate(today)
    /\ Len(walked) = 1

\* what a load of the cache log returns now
logEntries == IF cacheExists THEN loadCache(cacheFile) ELSE {}

\* C24: at every reachable state, crash points included, every id of the
\* in-memory set is an entry of the cache log, an entry being what a load of
\* the log returns.
C24_SetWithinLog ==
    cachedIds \subseteq logEntries

\* the steps an id went through when all of token exchange, link resolution,
\* document fetch and file write succeeded
ResolvedSteps == {"throttled", "linked", "fetched", "opened", "written"}

\* C25: the cache log changes only by the append of the id at hand, and the
\* in-memory set changes during a walk only by the insertion of the id at
\* hand; both happen only in an item whose token exchange, link resolution,
\* document fetch and file write all succeeded; a step that counts an id as
\* Failed or as Skipped leaves the log and the set as they were.
C25_RecordedOnlyOnSuccess ==
    [][ /\ (cacheFile' # cacheFile \/ cacheExists' # cacheExists)
          => /\ pc = "append"
             /\ steps = ResolvedSteps
             /\ cacheFile' = cacheFile \o contractId \o <<NL>>
             /\ cacheExists'
        /\ (cachedIds' # cachedIds /\ Running /\ pc' # "killed")
          => /\ pc = "add"
             /\ steps = ResolvedSteps \cup {"appended"}
             /\ cachedIds' = cachedIds \cup {contractId}
        /\ (Running /\ (stats'.failed = stats.failed + 1
                        \/ stats'.skipped = stats.skipped + 1))
          => /\ cacheFile' = cacheFile /\ cacheExists' = cacheExists
             /\ cachedIds' = cachedIds ]_vars

\* the first id of the page failed at its write and left the log and the set
\* empty; the second went through every step and its append, and is about to
\* be inserted into the set
C25_Witness ==
    /\ pc = "add" /\ idx = 2
    /\ steps = ResolvedSteps \cup {"appended"}
    /\ stats.failed = 1 /\ writeFailed = {contractsOnPage[1]}
    /\ LogLines(cacheFile) = <<contractId>> /\ cachedIds = {}

IsPrefix(s, t) == Len(s) <= Len(t) /\ SubSeq(t, 1, Len(s)) = s

\* the entries of the log as it stood when the run started: what a load
\* returns of the lines that this run did not append
startEntries ==
    LET ls == LogLines(cacheFile)
    IN  {Trim(ls[i]) : i \in 1..(Len(ls) - audit.appended)} \ {<<>>}

IsTrimmedLine(text, i, j) ==
    /\ i <= j
    /\ \A k \in i..j : text[k] # NL
    /\ text[i] # SP /\ text[j] # SP
    /\ \E l \in 1..i : /\ \A k \in l..(i - 1) : text[k] = SP
                       /\ l = 1 \/ text[l - 1] = NL
    /\ \E r \in j..Len(text) : /\ \A k \in (j + 1)..r : text[k] = SP
                               /\ r = Len(text) \/ text[r + 1] = NL

TrimmedLines(text) ==
    { SubSeq(text, i, j) :
        <<i, j>> \in { ij \in (1..Len(text)) \X (1..Len(text)) :
                         IsTrimmedLine(text, ij[1], ij[2]) } }

\* C27: over a storage that does not fault the load never ends in an error,
\* with or without a log; the set it returns is exactly the set of the
\* log's lines with the surrounding whitespace removed, the empty ones left
\* out; and it is empty when there is no log.
C27_LoadReturnsTrimmedLines ==
    /\ pc \in {"idle", "setup", "range"}
    /\ pc = "range"
         => cachedIds = (IF cacheExists THEN TrimmedLines(cacheFile) ELSE {})

\* a log of two lines, ' a' and 'a' without a final line break, was loaded as
\* the one id 'a'
C27_Witness ==
    /\ pc = "range"
    /\ cacheExists /\ cacheFile = <<SP, "a", NL, "a">>
    /\ cachedIds = {<<"a">>}

\* C28: a run whose setup is over ends nowhere but at Done; the windows walked
\* have strictly increasing end dates, and every window after the caller's
\* ends no later than today.
C28_RunsEndAtDone ==
    /\ (pc \in Stopped /\ SetupDone) => pc = "done"
    /\ \A i \in 1..(Len(walked) - 1) :
          /\ OrdStr(walked[i].to) < OrdStr(walked[i + 1].to)
          /\ OrdStr(walked[i + 1].to) <= OrdDate(today)

\* the walked windows that hold the day of ordinal d
windowsOf(d) ==
    { i \in DOMAIN walked : /\ OrdStr(walked[i].from) <= d
                            /\ d <= OrdStr(walked[i].to) }

\* C29: at Done of an extend-to-present run whose toDate was not after today,
\* the first walked window starts on fromDate, the last one ends on today,
\* and every day from fromDate to today lies in exactly one walked window.
C29_CoversUpToToday ==
    (/\ pc = "done" /\ answers.repeatTillDate
     /\ OrdStr(answers.toDate) <= OrdDate(today))
      => /\ walked[1].from = answers.fromDate
         /\ OrdStr(walked[Len(walked)].to) = OrdDate(today)
         /\ \A d \in OrdStr(answers.fromDate)..OrdDate(today) :
               Cardinality(windowsOf(d)) = 1

\* Done after four windows, from the first of a month of the year before to
\* today
C29_Witness ==
    /\ pc = "done" /\ answers.repeatTillDate
    /\ Len(walked) = 4
    /\ OrdStr(walked[1].to) + 200 < OrdDate(today)
    /\ OrdStr(walked[4].to) = OrdDate(today)
    /\ OrdStr(walked[4].from) < OrdDate(today)

C31_PageErrorCountsNothing ==
    [][ /\ (pc = "page" /\ pageErrors' = pageErrors + 1) => stats' = stats
        /\ (lastPage = "error" /\ pc' \notin {"killed", "setup"})
             => stats' = stats ]_vars

\* the second page of a window has just failed after the first page counted
\* two failed ids
C31_Witness ==
    /\ lastPage = "error" /\ pc = "plan"
    /\ pageLog = <<0, 1>> /\ pageErrors = 1
    /\ stats = [scraped |-> 2, downloaded |-> 0, skipped |-> 0, failed |-> 2]

\* C32: every id that was appended to the cache log is, as it was appended,
\* a member of the set that a fresh load of the log returns.
C32_AppendedIdIsLoaded ==
    Range(LogLines(cacheFile)) \subseteq logEntries

\* C33: formatDate(parseDate(s)) is s for every DD-MM-YYYY string s of a real
\* calendar day, and parseDate(formatDate(d)) is the calendar day of d.
C33_RoundTrip ==
    fnRes # NoRoundTrip
      => /\ fnRes.text = fnArg.s
         /\ fnRes.date = [fnArg.d EXCEPT !.t = 0]

====
